---- MODULE Spec2Model ----
(***************************************************************************)
(* Model of ToothSwinUNETR/losses/loss.py: the class-distance matrix       *)
(* builders and the two composite losses GWDLCELoss and DiceCELoss.        *)
(*                                                                         *)
(* Tensors are records [shape, dtype, data]; data is the row-major list of *)
(* elements.  An element of an integer tensor is the integer itself; an    *)
(* element v of a floating tensor stands for the real number v/FloatScale, *)
(* so that a cast between integer and floating dtypes changes the data.    *)
(* The external loss objects (monai DiceLoss, monai Generalized            *)
(* Wasserstein Dice loss, torch CrossEntropyLoss) are opaque: a call to    *)
(* one of them is logged with its arguments and returns a value chosen by  *)
(* the environment.  Python passes objects by reference: the loss object   *)
(* built from the distance matrix holds the name of that shared matrix.    *)
(* A run configures one criterion: the distance matrix and then a          *)
(* GWDLCELoss on it, or a DiceCELoss.                                      *)
(***************************************************************************)
EXTENDS Integers, Sequences, FiniteSets, TLC

VARIABLES dist_matrix, np_loaded, loss, last

vars == <<dist_matrix, np_loaded, loss, last>>

(***************************************************************************)
(* Bounds of the model                                                     *)
(***************************************************************************)
MaxWeight == 1      \* trade-off weights range over -1..MaxWeight
MaxCh == 2          \* channel counts range over 1..MaxCh
MaxVal == 1         \* raw tensor elements range over 0..MaxVal
FloatScale == 2     \* a floating element v stands for v/FloatScale

(***************************************************************************)
(* Program constants                                                       *)
(***************************************************************************)
NumRealClasses == 32
NumClasses == 33

Weights == (0 - 1)..MaxWeight
\* values an external loss object may return
LossVals == {0, 1}
Reductions == {"mean", "sum", "none"}
DiceCEReduction == {"mean", "sum"}
Versions == {<<1, 9>>, <<1, 10>>, <<2, 0>>}
FloatDTypes == {"float32", "float64"}
TargetDTypes == {"float32", "int64"}

(***************************************************************************)
(* Tensors                                                                 *)
(***************************************************************************)
RECURSIVE Prod(_)
Prod(s) == IF s = <<>> THEN 1 ELSE s[1] * Prod(Tail(s))

NoTensor == [shape |-> <<>>, dtype |-> "none", data |-> <<>>]

\* shapes (Batch, Channels) and (Batch, Channels, Spatial), batch and spatial extent 1
ShapesOf(c) == {<<1, c>>, <<1, c, 1>>}

\* predictions are (Batch, Channels, Spatial)
PredShapesOf(c) == {<<1, c, 1>>}

DataOf(n) == [1..n -> 0..MaxVal]

Ramp(n) == [k \in 1..n |-> k % (MaxVal + 1)]

Predictions ==
    {[shape |-> s, dtype |-> dt, data |-> Ramp(Prod(s))] :
        s \in UNION {PredShapesOf(c) : c \in 1..MaxCh}, dt \in FloatDTypes}

Targets ==
    UNION {{[shape |-> s, dtype |-> dt, data |-> d] : d \in DataOf(Prod(s))} :
        s \in UNION {ShapesOf(c) : c \in 1..MaxCh}, dt \in TargetDTypes}

is_floating_point(t) == t.dtype \in FloatDTypes

\* torch.squeeze(t, dim=1): drops dimension 1 when its extent is 1
squeeze1(t) ==
    IF Len(t.shape) >= 2 /\ t.shape[2] = 1
    THEN [t EXCEPT !.shape = <<t.shape[1]>> \o SubSeq(t.shape, 3, Len(t.shape))]
    ELSE t

\* Tensor.long(): conversion to int64, truncating floating elements
long(t) ==
    [t EXCEPT !.dtype = "int64",
              !.data = IF is_floating_point(t)
                       THEN [k \in 1..Len(t.data) |-> t.data[k] \div FloatScale]
                       ELSE t.data]

\* Tensor.to(dtype=dt)
to_dtype(t, dt) ==
    [t EXCEPT !.dtype = dt,
              !.data = IF is_floating_point(t) = (dt \in FloatDTypes) THEN t.data
                       ELSE IF dt \in FloatDTypes
                            THEN [k \in 1..Len(t.data) |-> t.data[k] * FloatScale]
                            ELSE [k \in 1..Len(t.data) |-> t.data[k] \div FloatScale]]

\* torch.argmax(t, dim=1): index of the first maximal element along dimension 1
argmax1(t) ==
    LET outer == t.shape[1]
        ch    == t.shape[2]
        inner == Prod(SubSeq(t.shape, 3, Len(t.shape)))
        at(o, c, k) == t.data[o * ch * inner + c * inner + k + 1]
        best(o, k) == CHOOSE c \in 0..(ch - 1) :
                         /\ \A c2 \in 0..(ch - 1) : at(o, c2, k) <= at(o, c, k)
                         /\ \A c2 \in 0..(c - 1) : at(o, c2, k) < at(o, c, k)
    IN  [shape |-> <<t.shape[1]>> \o SubSeq(t.shape, 3, Len(t.shape)),
         dtype |-> "int64",
         data  |-> [n \in 1..(outer * inner) |->
                        best((n - 1) \div inner, (n - 1) % inner)]]

(***************************************************************************)
(* Distance matrices: a matrix is a sequence of rows                       *)
(***************************************************************************)
ones(r, c) == [i \in 1..r |-> [j \in 1..c |-> 1]]

\* torch.cat([a, b]) along dimension 0 and along dimension 1
cat0(a, b) == a \o b
cat1(a, b) == [i \in 1..Len(a) |-> a[i] \o b[i]]

Quarter(k) == (k - 1) \div 8

\* contents the two .npy files may have (NumRealClasses x NumRealClasses)
QuarterTable ==
    [i \in 1..NumRealClasses |-> [j \in 1..NumRealClasses |->
        IF i = j THEN 0 ELSE IF Quarter(i) = Quarter(j) THEN 1 ELSE 2]]
OnesTable == ones(NumRealClasses, NumRealClasses)

BaseTables == {QuarterTable, OnesTable}

NoMatrix == <<>>
NoLoad == [path |-> "none", table |-> <<>>]

\* variant: the column of ones is appended instead of prepended
get_tooth_dist_matrix_append(quarter_penalty, table) ==
    LET path == IF quarter_penalty
                THEN "ToothSwinUNETR/losses/wasserstein_matrix.npy"
                ELSE "ToothSwinUNETR/losses/wasserstein_matrix_equal.npy"
        msg  == IF quarter_penalty
                THEN "Using intra quarters penalty"
                ELSE "Using equal quarters - no intra quarter penalty"
        m1 == cat0(ones(1, NumRealClasses), table)
        m2 == cat1(m1, ones(NumClasses, 1))
        m3 == [m2 EXCEPT ![1][1] = 0]
    IN  [loaded |-> [path |-> path, table |-> table], stdout |-> msg, matrix |-> m3]

get_tooth_dist_matrix(quarter_penalty, table) ==
    LET path == IF quarter_penalty
                THEN "ToothSwinUNETR/losses/wasserstein_matrix.npy"
                ELSE "ToothSwinUNETR/losses/wasserstein_matrix_equal.npy"
        msg  == IF quarter_penalty
                THEN "Using intra quarters penalty"
                ELSE "Using equal quarters - no intra quarter penalty"
        m1 == cat0(ones(1, NumRealClasses), table)
        m2 == cat1(ones(NumClasses, 1), m1)
        m3 == [m2 EXCEPT ![1][1] = 0]
    IN  [loaded |-> [path |-> path, table |-> table], stdout |-> msg, matrix |-> m3]

get_equall_dist_matrix ==
    LET m1 == ones(NumClasses, NumClasses)
    IN  [m1 EXCEPT ![1][1] = 0]

(***************************************************************************)
(* Outcome of the last operation                                           *)
(***************************************************************************)
NoError == [type |-> "none", msg |-> "", shapes |-> <<>>]
NoCtor == [reduction |-> "", lambda_dice |-> 0, lambda_ce |-> 0]
NoLoss == [cls |-> "None"]

Outcome(op, ctor, input, target, calls, rule, result, error, stdout) ==
    [op |-> op, ctor |-> ctor, input |-> input, target |-> target,
     calls |-> calls, rule |-> rule, result |-> result, error |-> error,
     stdout |-> stdout]

NoOutcome ==
    Outcome("none", NoCtor, NoTensor, NoTensor, <<>>, "not_run", <<>>, NoError, "")

\* one call of an external loss object: callee(input, target) returned ret
Call(callee, input, target, ret) ==
    [callee |-> callee, input |-> input, target |-> target, ret |-> ret]

CrossEntropyLoss(weight, reduction) ==
    [cls |-> "CrossEntropyLoss", weight |-> weight, reduction |-> reduction]

(***************************************************************************)
(* GWDLCELoss                                                              *)
(***************************************************************************)
GWDLCELoss_init(dm, ce_weight, lambda_dice, lambda_ce, weighting_mode, reduction) ==
    [cls |-> "GWDLCELoss",
     lambda_dice |-> lambda_dice,
     lambda_ce |-> lambda_ce,
     cross_entropy |-> CrossEntropyLoss(ce_weight, reduction),
     generalized_dice |-> [cls |-> "GeneralizedWassersteinDiceLoss",
                           dist_matrix |-> dm,
                           weighting_mode |-> weighting_mode,
                           reduction |-> reduction]]

\* variant: a multi-channel target is replaced by its arg-max
GWDLCELoss_ce_argmax(self, input, target, ce_ret) ==
    LET n_pred_ch == input.shape[2]
        n_target_ch == target.shape[2]
        rule == IF n_pred_ch # n_target_ch /\ n_target_ch = 1 THEN "squeeze_long"
                ELSE IF n_target_ch > 1 THEN "argmax"
                ELSE IF ~is_floating_point(target) THEN "cast"
                ELSE "none"
        t == IF rule = "squeeze_long" THEN long(squeeze1(target))
             ELSE IF rule = "argmax" THEN argmax1(target)
             ELSE IF rule = "cast" THEN to_dtype(target, input.dtype)
             ELSE target
    IN  [rule |-> rule, call |-> Call(self.cross_entropy.cls, input, t, ce_ret)]

\* variant: the target is always cast to the prediction's dtype
GWDLCELoss_ce_always_cast(self, input, target, ce_ret) ==
    LET n_pred_ch == input.shape[2]
        n_target_ch == target.shape[2]
        rule == IF n_pred_ch # n_target_ch /\ n_target_ch = 1 THEN "squeeze_long"
                ELSE "cast"
        t == IF rule = "squeeze_long" THEN long(squeeze1(target))
             ELSE to_dtype(target, input.dtype)
    IN  [rule |-> rule, call |-> Call(self.cross_entropy.cls, input, t, ce_ret)]

GWDLCELoss_ce(self, input, target, ce_ret) ==
    LET n_pred_ch == input.shape[2]
        n_target_ch == target.shape[2]
        rule == IF n_pred_ch # n_target_ch /\ n_target_ch = 1 THEN "squeeze_long"
                ELSE IF ~is_floating_point(target) THEN "cast"
                ELSE "none"
        t == IF rule = "squeeze_long" THEN long(squeeze1(target))
             ELSE IF rule = "cast" THEN to_dtype(target, input.dtype)
             ELSE target
    IN  [rule |-> rule, call |-> Call(self.cross_entropy.cls, input, t, ce_ret)]

GWDLCELoss_gwdl(self, y_pred, y_true, gwdl_ret) ==
    Call(self.generalized_dice.cls, y_pred, y_true, gwdl_ret)

\* variant: the reconciled target of the cross-entropy path is reused for
\* the Generalized Wasserstein Dice call
GWDLCELoss_forward_reuse(self, y_pred, y_true, gwdl_ret, ce_ret) ==
    LET ce == GWDLCELoss_ce(self, y_pred, y_true, ce_ret)
        ce_loss == ce.call.ret
        gw == GWDLCELoss_gwdl(self, y_pred, ce.call.target, gwdl_ret)
        gwdl_loss == gw.ret
    IN  [self |-> self,
         out |-> Outcome("GWDLCELoss.forward", NoCtor, y_pred, y_true,
                         <<ce.call, gw>>, ce.rule, <<gwdl_loss, ce_loss>>,
                         NoError, "")]

\* variant: the forward keeps the last cross-entropy value in the weight field
GWDLCELoss_forward_store(self, y_pred, y_true, gwdl_ret, ce_ret) ==
    LET ce == GWDLCELoss_ce(self, y_pred, y_true, ce_ret)
        ce_loss == ce.call.ret
        gw == GWDLCELoss_gwdl(self, y_pred, y_true, gwdl_ret)
        gwdl_loss == gw.ret
    IN  [self |-> [self EXCEPT !.lambda_ce = ce_loss],
         out |-> Outcome("GWDLCELoss.forward", NoCtor, y_pred, y_true,
                         <<ce.call, gw>>, ce.rule, <<gwdl_loss, ce_loss>>,
                         NoError, "")]

GWDLCELoss_forward(self, y_pred, y_true, gwdl_ret, ce_ret) ==
    LET ce == GWDLCELoss_ce(self, y_pred, y_true, ce_ret)
        ce_loss == ce.call.ret
        gw == GWDLCELoss_gwdl(self, y_pred, y_true, gwdl_ret)
        gwdl_loss == gw.ret
    IN  [self |-> self,
         out |-> Outcome("GWDLCELoss.forward", NoCtor, y_pred, y_true,
                         <<ce.call, gw>>, ce.rule, <<gwdl_loss, ce_loss>>,
                         NoError, "")]

(***************************************************************************)
(* DiceCELoss                                                              *)
(***************************************************************************)
\* monai.utils.pytorch_after(major, minor) for the installed version ver
pytorch_after(major, minor, ver) ==
    ver[1] > major \/ (ver[1] = major /\ ver[2] >= minor)

\* variant: only lambda_dice is validated
DiceCELoss_init_one_check(reduction, ce_weight, lambda_dice, lambda_ce, ver) ==
    IF reduction \notin DiceCEReduction
    THEN [self |-> NoLoss,
          error |-> [type |-> "ValueError", msg |-> "Unsupported option",
                     shapes |-> <<>>]]
    ELSE IF lambda_dice < 0
    THEN [self |-> NoLoss,
          error |-> [type |-> "ValueError",
                     msg |-> "lambda_dice should be no less than 0.0.",
                     shapes |-> <<>>]]
    ELSE [self |-> [cls |-> "DiceCELoss",
                    dice |-> [cls |-> "DiceLoss", reduction |-> reduction],
                    cross_entropy |-> CrossEntropyLoss(ce_weight, reduction),
                    lambda_dice |-> lambda_dice,
                    lambda_ce |-> lambda_ce,
                    old_pt_ver |-> ~pytorch_after(1, 10, ver)],
          error |-> NoError]

DiceCELoss_init(reduction, ce_weight, lambda_dice, lambda_ce, ver) ==
    IF reduction \notin DiceCEReduction
    THEN [self |-> NoLoss,
          error |-> [type |-> "ValueError", msg |-> "Unsupported option",
                     shapes |-> <<>>]]
    ELSE IF lambda_dice < 0
    THEN [self |-> NoLoss,
          error |-> [type |-> "ValueError",
                     msg |-> "lambda_dice should be no less than 0.0.",
                     shapes |-> <<>>]]
    ELSE IF lambda_ce < 0
    THEN [self |-> NoLoss,
          error |-> [type |-> "ValueError",
                     msg |-> "lambda_ce should be no less than 0.0.",
                     shapes |-> <<>>]]
    ELSE [self |-> [cls |-> "DiceCELoss",
                    dice |-> [cls |-> "DiceLoss", reduction |-> reduction],
                    cross_entropy |-> CrossEntropyLoss(ce_weight, reduction),
                    lambda_dice |-> lambda_dice,
                    lambda_ce |-> lambda_ce,
                    old_pt_ver |-> ~pytorch_after(1, 10, ver)],
          error |-> NoError]

\* variant: the version test comes first
DiceCELoss_ce_version_first(self, input, target, ce_ret) ==
    LET n_pred_ch == input.shape[2]
        n_target_ch == target.shape[2]
        rule == IF self.old_pt_ver THEN "argmax"
                ELSE IF n_pred_ch # n_target_ch /\ n_target_ch = 1 THEN "squeeze_long"
                ELSE IF ~is_floating_point(target) THEN "cast"
                ELSE "none"
        t == IF rule = "squeeze_long" THEN long(squeeze1(target))
             ELSE IF rule = "argmax" THEN argmax1(target)
             ELSE IF rule = "cast" THEN to_dtype(target, input.dtype)
             ELSE target
    IN  [rule |-> rule, call |-> Call(self.cross_entropy.cls, input, t, ce_ret)]

DiceCELoss_ce(self, input, target, ce_ret) ==
    LET n_pred_ch == input.shape[2]
        n_target_ch == target.shape[2]
        rule == IF n_pred_ch # n_target_ch /\ n_target_ch = 1 THEN "squeeze_long"
                ELSE IF self.old_pt_ver THEN "argmax"
                ELSE IF ~is_floating_point(target) THEN "cast"
                ELSE "none"
        t == IF rule = "squeeze_long" THEN long(squeeze1(target))
             ELSE IF rule = "argmax" THEN argmax1(target)
             ELSE IF rule = "cast" THEN to_dtype(target, input.dtype)
             ELSE target
    IN  [rule |-> rule, call |-> Call(self.cross_entropy.cls, input, t, ce_ret)]

\* variant: no rank check
DiceCELoss_forward_unchecked(self, input, target, dice_ret, ce_ret) ==
    LET dc == Call(self.dice.cls, input, target, dice_ret)
        dice_loss == dc.ret
        ce == DiceCELoss_ce(self, input, target, ce_ret)
        ce_loss == ce.call.ret
    IN  [self |-> self,
         out |-> Outcome("DiceCELoss.forward", NoCtor, input, target,
                         <<dc, ce.call>>, ce.rule, <<dice_loss, ce_loss>>,
                         NoError, "")]

\* variant: the components are weighted by lambda_dice and lambda_ce
DiceCELoss_forward_weighted(self, input, target, dice_ret, ce_ret) ==
    IF Len(input.shape) # Len(target.shape)
    THEN [self |-> self,
          out |-> Outcome("DiceCELoss.forward", NoCtor, input, target,
                          <<>>, "not_run", <<>>,
                          [type |-> "ValueError",
                           msg |-> "the number of dimensions for input and target should be the same",
                           shapes |-> <<input.shape, target.shape>>], "")]
    ELSE LET dc == Call(self.dice.cls, input, target, dice_ret)
             dice_loss == dc.ret
             ce == DiceCELoss_ce(self, input, target, ce_ret)
             ce_loss == ce.call.ret
         IN  [self |-> self,
              out |-> Outcome("DiceCELoss.forward", NoCtor, input, target,
                              <<dc, ce.call>>, ce.rule,
                              <<self.lambda_dice * dice_loss, self.lambda_ce * ce_loss>>,
                              NoError, "")]

DiceCELoss_forward(self, input, target, dice_ret, ce_ret) ==
    IF Len(input.shape) # Len(target.shape)
    THEN [self |-> self,
          out |-> Outcome("DiceCELoss.forward", NoCtor, input, target,
                          <<>>, "not_run", <<>>,
                          [type |-> "ValueError",
                           msg |-> "the number of dimensions for input and target should be the same",
                           shapes |-> <<input.shape, target.shape>>], "")]
    ELSE LET dc == Call(self.dice.cls, input, target, dice_ret)
             dice_loss == dc.ret
             ce == DiceCELoss_ce(self, input, target, ce_ret)
             ce_loss == ce.call.ret
         IN  [self |-> self,
              out |-> Outcome("DiceCELoss.forward", NoCtor, input, target,
                              <<dc, ce.call>>, ce.rule, <<dice_loss, ce_loss>>,
                              NoError, "")]

(***************************************************************************)
(* Actions                                                                 *)
(***************************************************************************)
Init ==
    /\ dist_matrix = NoMatrix
    /\ np_loaded = NoLoad
    /\ loss = NoLoss
    /\ last = NoOutcome

\* dist_matrix = get_tooth_dist_matrix(device, quarter_penalty)
GetToothDistMatrix ==
    /\ dist_matrix = NoMatrix
    /\ loss = NoLoss
    /\ \E quarter_penalty \in BOOLEAN, table \in BaseTables :
          LET r == get_tooth_dist_matrix(quarter_penalty, table)
          IN  /\ dist_matrix' = r.matrix
              /\ np_loaded' = r.loaded
              /\ last' = Outcome("get_tooth_dist_matrix", NoCtor, NoTensor, NoTensor,
                                 <<>>, "not_run", <<>>, NoError, r.stdout)
    /\ UNCHANGED loss

\* dist_matrix = get_equall_dist_matrix(device)
GetEquallDistMatrix ==
    /\ dist_matrix = NoMatrix
    /\ loss = NoLoss
    /\ dist_matrix' = get_equall_dist_matrix
    /\ last' = Outcome("get_equall_dist_matrix", NoCtor, NoTensor, NoTensor,
                       <<>>, "not_run", <<>>, NoError, "")
    /\ UNCHANGED <<np_loaded, loss>>

\* loss = GWDLCELoss(dist_matrix, ce_weight, lambda_dice, lambda_ce)
NewGWDLCELoss ==
    /\ loss = NoLoss
    /\ dist_matrix # NoMatrix
    /\ \E ld \in Weights, lc \in Weights :
          /\ loss' = GWDLCELoss_init("dist_matrix", "ce_weight", ld, lc, "GDL", "mean")
          /\ last' = Outcome("GWDLCELoss.__init__",
                             [reduction |-> "mean", lambda_dice |-> ld, lambda_ce |-> lc],
                             NoTensor, NoTensor, <<>>, "not_run", <<>>, NoError, "")
    /\ UNCHANGED <<dist_matrix, np_loaded>>

\* loss = DiceCELoss(reduction=..., lambda_dice=..., lambda_ce=...)
NewDiceCELoss ==
    /\ loss = NoLoss
    /\ dist_matrix = NoMatrix
    /\ \E red \in Reductions, ld \in Weights, lc \in Weights, ver \in Versions :
          LET r == DiceCELoss_init(red, "ce_weight", ld, lc, ver)
          IN  /\ loss' = r.self
              /\ last' = Outcome("DiceCELoss.__init__",
                                 [reduction |-> red, lambda_dice |-> ld, lambda_ce |-> lc],
                                 NoTensor, NoTensor, <<>>, "not_run", <<>>, r.error, "")
    /\ UNCHANGED <<dist_matrix, np_loaded>>

ForwardOps == {"GWDLCELoss.forward", "DiceCELoss.forward"}

\* gwdl_loss, ce_loss = loss(y_pred, y_true)
GWDLCEForward ==
    /\ loss.cls = "GWDLCELoss"
    /\ last.op \notin ForwardOps
    /\ \E y_pred \in Predictions, y_true \in Targets, g \in LossVals, c \in LossVals :
          LET r == GWDLCELoss_forward(loss, y_pred, y_true, g, c)
          IN  /\ loss' = r.self
              /\ last' = r.out
    /\ UNCHANGED <<dist_matrix, np_loaded>>

\* dice_loss, ce_loss = loss(input, target)
DiceCEForward ==
    /\ loss.cls = "DiceCELoss"
    /\ last.op \notin ForwardOps
    /\ \E input \in Predictions, target \in Targets, d \in LossVals, c \in LossVals :
          LET r == DiceCELoss_forward(loss, input, target, d, c)
          IN  /\ loss' = r.self
              /\ last' = r.out
    /\ UNCHANGED <<dist_matrix, np_loaded>>

\* the caller has consumed the returned pair (or the exception) of a forward
\* call; the arguments and locals of that call are gone
Discard ==
    /\ last.op \in ForwardOps
    /\ last' = NoOutcome
    /\ UNCHANGED <<dist_matrix, np_loaded, loss>>

Next ==
    \/ GetToothDistMatrix
    \/ GetEquallDistMatrix
    \/ NewGWDLCELoss
    \/ NewDiceCELoss
    \/ GWDLCEForward
    \/ DiceCEForward
    \/ Discard

Spec == Init /\ [][Next]_vars

TypeOK ==
    /\ loss.cls \in {"None", "GWDLCELoss", "DiceCELoss"}
    /\ dist_matrix # NoMatrix => Len(dist_matrix) = NumClasses

(***************************************************************************)
(* Properties                                                              *)
(***************************************************************************)
RegionLosses == {"DiceLoss", "GeneralizedWassersteinDiceLoss"}

ForwardDone == last.op \in ForwardOps /\ last.error = NoError
RankDiffers == Len(last.input.shape) # Len(last.target.shape)

\* the logged call of the region-overlap loss and of the cross-entropy loss
RegionCall == last.calls[CHOOSE k \in 1..Len(last.calls) : last.calls[k].callee \in RegionLosses]
CeCall == last.calls[CHOOSE k \in 1..Len(last.calls) : last.calls[k].callee = "CrossEntropyLoss"]

PredCh == last.input.shape[2]
TargetCh == last.target.shape[2]
SingleChannelMismatch == PredCh # TargetCh /\ TargetCh = 1
TargetIsFloat == last.target.dtype \in FloatDTypes

\* the target with its channel dimension removed, as int64, elements truncated
SqueezedLongTarget ==
    [shape |-> <<last.target.shape[1]>> \o SubSeq(last.target.shape, 3, Len(last.target.shape)),
     dtype |-> "int64",
     data  |-> [k \in 1..Len(last.target.data) |->
                   IF TargetIsFloat THEN last.target.data[k] \div FloatScale
                   ELSE last.target.data[k]]]

\* the integer target as a floating tensor of the prediction's dtype
CastTarget ==
    [shape |-> last.target.shape,
     dtype |-> last.input.dtype,
     data  |-> [k \in 1..Len(last.target.data) |-> last.target.data[k] * FloatScale]]

\* t is a class-index map holding, per position, the first maximal channel
\* (batch and spatial extents are 1 here, so there is one position)
IsArgmaxOfTarget(t) ==
    /\ t.shape = <<last.target.shape[1]>> \o SubSeq(last.target.shape, 3, Len(last.target.shape))
    /\ t.dtype = "int64"
    /\ Len(t.data) = 1
    /\ t.data[1] \in 0..(TargetCh - 1)
    /\ \A c \in 1..TargetCh : last.target.data[c] <= last.target.data[t.data[1] + 1]
    /\ \A c \in 1..t.data[1] : last.target.data[c] < last.target.data[t.data[1] + 1]

\* C1: a DiceCELoss.forward on arguments of different rank fails with a
\* ValueError naming both shapes, and no delegated loss has been called
\* (no Dice call, no cross-entropy call, no label reconciliation, no result).
C1_RankMismatchRaisesFirst ==
    (last.op = "DiceCELoss.forward" /\ RankDiffers) =>
        /\ last.error.type = "ValueError"
        /\ last.error.shapes = <<last.input.shape, last.target.shape>>
        /\ last.calls = <<>>
        /\ last.rule = "not_run"
        /\ last.result = <<>>

C1_Witness ==
    /\ last.op = "DiceCELoss.forward"
    /\ RankDiffers
    /\ last.error.type = "ValueError"

\* C2: constructing DiceCELoss fails with a ValueError when lambda_dice < 0
\* or lambda_ce < 0 (with a valid reduction mode it is the error about that
\* weight), leaving no instance; with both weights >= 0 and a valid
\* reduction mode it succeeds and stores the two weights unchanged.
C2_ConstructionValidation ==
    last.op = "DiceCELoss.__init__" =>
        /\ (last.ctor.lambda_dice < 0 \/ last.ctor.lambda_ce < 0) =>
              /\ last.error.type = "ValueError"
              /\ loss = NoLoss
              /\ last.ctor.reduction \in DiceCEReduction =>
                    last.error.msg = IF last.ctor.lambda_dice < 0
                                     THEN "lambda_dice should be no less than 0.0."
                                     ELSE "lambda_ce should be no less than 0.0."
        /\ (/\ last.ctor.lambda_dice >= 0
            /\ last.ctor.lambda_ce >= 0
            /\ last.ctor.reduction \in DiceCEReduction) =>
              /\ last.error = NoError
              /\ loss.cls = "DiceCELoss"
              /\ loss.lambda_dice = last.ctor.lambda_dice
              /\ loss.lambda_ce = last.ctor.lambda_ce

C2_Witness ==
    /\ last.op = "DiceCELoss.__init__"
    /\ last.ctor.lambda_dice >= 0
    /\ last.ctor.lambda_ce < 0
    /\ last.ctor.reduction \in DiceCEReduction
    /\ last.error.type = "ValueError"

\* C3: in a DiceCELoss forward the target handed to the cross-entropy loss is
\* the result of the first matching rule only: (1) single-channel target
\* against a different channel count: squeezed and cast to int64; (2) else
\* on an old library version: arg-max over the channels; (3) else a
\* non-float target: cast to the input's dtype; else the target itself.
C3_FirstMatchingRule ==
    (last.op = "DiceCELoss.forward" /\ ForwardDone) =>
        /\ SingleChannelMismatch =>
              last.rule = "squeeze_long" /\ CeCall.target = SqueezedLongTarget
        /\ (~SingleChannelMismatch /\ loss.old_pt_ver) =>
              last.rule = "argmax" /\ IsArgmaxOfTarget(CeCall.target)
        /\ (~SingleChannelMismatch /\ ~loss.old_pt_ver /\ ~TargetIsFloat) =>
              last.rule = "cast" /\ CeCall.target = CastTarget
        /\ (~SingleChannelMismatch /\ ~loss.old_pt_ver /\ TargetIsFloat) =>
              last.rule = "none" /\ CeCall.target = last.target

\* rule 1 and rule 2 both match (old version, single-channel integer target
\* with a nonzero element): rule 1 is the one applied
C3_Witness ==
    /\ last.op = "DiceCELoss.forward"
    /\ ForwardDone
    /\ SingleChannelMismatch
    /\ loss.old_pt_ver
    /\ ~TargetIsFloat
    /\ \E k \in 1..Len(last.target.data) : last.target.data[k] # 0
    /\ last.rule = "squeeze_long"

\* C4 as stated: for a floating target with the input's channel count, the
\* cross-entropy path of either class hands the target on unchanged.
C4_Original ==
    (ForwardDone /\ TargetCh = PredCh /\ TargetIsFloat) =>
        CeCall.target = last.target

\* C4 amended: for a floating target with the input's channel count, the
\* cross-entropy path hands the target on unchanged in GWDLCELoss, and in
\* DiceCELoss when old_pt_ver is false; when old_pt_ver is true DiceCELoss
\* hands on the arg-max of the target over the channel dimension instead.
C4_Amended ==
    (ForwardDone /\ TargetCh = PredCh /\ TargetIsFloat) =>
        IF last.op = "DiceCELoss.forward" /\ loss.old_pt_ver
        THEN IsArgmaxOfTarget(CeCall.target) /\ CeCall.target # last.target
        ELSE CeCall.target = last.target

\* a floating target whose dtype differs from the input's is handed on as is
C4_Witness ==
    /\ last.op = "GWDLCELoss.forward"
    /\ ForwardDone
    /\ TargetCh = PredCh
    /\ TargetIsFloat
    /\ last.target.dtype # last.input.dtype
    /\ CeCall.target = last.target

\* C5: every class has zero self-distance in the built distance matrix.
C5_ZeroDiagonal ==
    dist_matrix # NoMatrix =>
        \A i \in 1..NumClasses : dist_matrix[i][i] = 0

\* C6: the built matrix is 33 x 33, its background-background cell is 0,
\* the rest of row 0 and of column 0 is 1, and the cell [i][j] for i, j > 0
\* is the cell [i-1][j-1] of the base table (all ones for the equal builder).
\* (Indices of the model are 1-based.)
C6_BackgroundEmbedding ==
    dist_matrix # NoMatrix =>
        /\ Len(dist_matrix) = 33
        /\ \A i \in 1..33 : Len(dist_matrix[i]) = 33
        /\ dist_matrix[1][1] = 0
        /\ \A k \in 2..33 : dist_matrix[1][k] = 1 /\ dist_matrix[k][1] = 1
        /\ \A i \in 2..33 : \A j \in 2..33 :
              dist_matrix[i][j] = IF np_loaded = NoLoad THEN 1
                                   ELSE np_loaded.table[i - 1][j - 1]

C6_Witness ==
    /\ dist_matrix # NoMatrix
    /\ np_loaded.table = QuarterTable
    /\ dist_matrix[2][10] = 2
    /\ dist_matrix[10][1] = 1

C8_GwdlReconciliation ==
    last.op = "GWDLCELoss.forward" =>
        /\ last.error = NoError
        /\ Len(last.calls) = 2
        /\ last.rule # "argmax"
        /\ SingleChannelMismatch =>
              last.rule = "squeeze_long" /\ CeCall.target = SqueezedLongTarget
        /\ (~SingleChannelMismatch /\ ~TargetIsFloat) =>
              last.rule = "cast" /\ CeCall.target = CastTarget
        /\ (~SingleChannelMismatch /\ TargetIsFloat) =>
              last.rule = "none" /\ CeCall.target = last.target

C8_Witness ==
    /\ last.op = "GWDLCELoss.forward"
    /\ RankDiffers
    /\ TargetCh = PredCh
    /\ TargetCh > 1
    /\ TargetIsFloat
    /\ CeCall.target = last.target

\* C9: a forward call, successful or failing, leaves the instance (weights,
\* version flag, loss objects, the distance matrix they hold) and the built
\* distance matrix as they were.
C9_ForwardIsStateless ==
    [][(last'.op \in ForwardOps /\ last.op \notin ForwardOps) =>
          /\ loss' = loss
          /\ dist_matrix' = dist_matrix
          /\ np_loaded' = np_loaded]_vars

C9_Witness ==
    /\ last.op = "GWDLCELoss.forward"
    /\ ForwardDone
    /\ CeCall.ret # loss.lambda_ce
    /\ loss.generalized_dice.dist_matrix = "dist_matrix"
    /\ dist_matrix # NoMatrix

\* C10: the region-overlap loss is called with the caller's own prediction
\* and target, whatever the cross-entropy path did to its copy of the
\* target; Dice runs before cross-entropy in DiceCELoss and after it in
\* GWDLCELoss.
C10_RegionPathGetsOriginal ==
    ForwardDone =>
        /\ RegionCall.input = last.input
        /\ RegionCall.target = last.target
        /\ CeCall.input = last.input
        /\ last.calls = IF last.op = "DiceCELoss.forward"
                        THEN <<RegionCall, CeCall>>
                        ELSE <<CeCall, RegionCall>>

\* single-channel integer target against a two-channel input
C10_Witness ==
    /\ last.op = "GWDLCELoss.forward"
    /\ ForwardDone
    /\ last.target.shape = <<1, 1, 1>>
    /\ last.input.shape = <<1, 2, 1>>
    /\ last.target.dtype = "int64"
    /\ CeCall.target.shape = <<1, 1>>
    /\ RegionCall.target.shape = <<1, 1, 1>>

====
